---------------------------- MODULE Spec2Model ----------------------------
(***************************************************************************)
(* CAN identifiers (socketcan_id.rs), the composite ID word codec and the  *)
(* error-frame type CanErrorFrame (socketcan_frame.rs), and the default    *)
(* methods of the embedded Frame trait (socketcan_embedded.rs).            *)
(*                                                                         *)
(* Machine integers.  A u8/u16/u32 value is the set of the positions of    *)
(* its 1 bits (bit 0 the least significant), so that a u32 keeps all of    *)
(* its 32 bits: & is intersection, | is union, >> moves positions down,    *)
(* a narrowing cast keeps the low positions.                               *)
(***************************************************************************)
EXTENDS Integers, Sequences, FiniteSets, TLC

VARIABLES
    raw,      \* Option<u32>: the argument of the last id_from_raw call
    id,       \* Option<Id>: the identifier the caller holds
    canid,    \* Option<canid_t>: id_to_canid_t of the held identifier
    other,    \* Option<Id>: the right-hand side of the last comparison
    ord,      \* the Ordering the last comparison returned, or "NoOrdering"
    frame,    \* Option<CanErrorFrame>: the error frame the caller holds
    call,     \* the last call on the error-frame API: its name and arguments
    ret,      \* what that call returned
    stack     \* the call stack of a Frame query that has not returned

vars == <<raw, id, canid, other, ord, frame, call, ret, stack>>

idVars == <<raw, id, canid, other, ord>>

frameVars == <<frame, call, ret, stack>>

-----------------------------------------------------------------------------
(* Bounds of the model.                                                    *)

\* Input integers are taken within Radius of each boundary of the code.
Radius == 2

\* Payload slices handed to the constructors have 0..MaxDataLen bytes.
MaxDataLen == 9

\* Stack frames available to a recursion before the stack overflows.
MaxStack == 3

-----------------------------------------------------------------------------
(* Machine words.                                                          *)

U16Bits == 0..15

\* The word of a number below 2^31.
BitsOf(n) == {i \in 0..30 : (n \div 2^i) % 2 = 1}

RECURSIVE Val(_)
\* The number of a word below 2^31.
Val(w) == IF w = {} THEN 0
          ELSE LET i == CHOOSE j \in w : TRUE IN 2^i + Val(w \ {i})

And(a, b) == a \cap b

Or(a, b) == a \cup b

Shr(a, k) == {i - k : i \in {j \in a : j >= k}}

AsU16(a) == a \cap U16Bits

\* a < b as unsigned numbers: at the highest position where they differ, b has the 1.
WLt(a, b) == \E i \in b \ a : \A j \in (i + 1)..31 : (j \in a) <=> (j \in b)

WLe(a, b) == a = b \/ WLt(a, b)

\* core::cmp::Ord::cmp on unsigned integers.
WCmp(a, b) == IF WLt(a, b) THEN "Less" ELSE IF a = b THEN "Equal" ELSE "Greater"

None == [tag |-> "None"]

Some(x) == [tag |-> "Some", val |-> x]

Ok(x) == [tag |-> "Ok", val |-> x]

Err(e) == [tag |-> "Err", err |-> e]

-----------------------------------------------------------------------------
(* socketcan_frame.rs: constants.                                          *)

_CAN_EFF_FLAG == {31}

_CAN_RTR_FLAG == BitsOf(1073741824)

_CAN_ERR_FLAG == BitsOf(536870912)

_CAN_MAX_DLEN == 8

_CAN_SFF_MASK == BitsOf(2047)

_CAN_ERR_MASK == BitsOf(536870911)

_CAN_EFF_MASK == BitsOf(536870911)

-----------------------------------------------------------------------------
(* socketcan_id.rs                                                         *)

\* StandardId::new(raw: u16) -> Option<StandardId>
StandardId_new(n) ==
    IF WLe(n, BitsOf(2047)) THEN Some([std |-> n]) ELSE None

\* ExtendedId::new(raw: u32) -> Option<ExtendedId>
ExtendedId_new(n) ==
    IF WLe(n, BitsOf(536870911)) THEN Some([ext |-> n]) ELSE None

\* ExtendedId::standard_id: ID-28 to ID-18
standard_id(x) == [std |-> AsU16(Shr(x.ext, 18))]

\* enum Id, through From<StandardId> and From<ExtendedId>
Standard(s) == [kind |-> "Standard", raw |-> s.std]

Extended(e) == [kind |-> "Extended", raw |-> e.ext]

\* StandardId::new(n)?.into(): None is passed on, Some(s) becomes Some(Id::Standard(s))
StandardInto(opt) == IF opt.tag = "Some" THEN Some(Standard(opt.val)) ELSE None

\* ExtendedId::new(n)?.into(): None is passed on, Some(e) becomes Some(Id::Extended(e))
ExtendedInto(opt) == IF opt.tag = "Some" THEN Some(Extended(opt.val)) ELSE None

\* The mutation: the IDE bit is left out of the key.
split_id_no_ide(i) ==
    IF i.kind = "Standard"
    THEN <<i.raw, 0, {}>>
    ELSE <<standard_id([ext |-> i.raw]).std, 0, And(i.raw, BitsOf(2^18 - 1))>>

\* The closure split_id of Ord::cmp.
split_id(i) ==
    IF i.kind = "Standard"
    THEN <<i.raw, 0, {}>>
    ELSE <<standard_id([ext |-> i.raw]).std, 1, And(i.raw, BitsOf(2^18 - 1))>>

\* Ord::cmp of (u16, i32, u32) tuples: lexicographic.
TupleCmp(s, t) ==
    IF WCmp(s[1], t[1]) # "Equal" THEN WCmp(s[1], t[1])
    ELSE IF s[2] # t[2] THEN (IF s[2] < t[2] THEN "Less" ELSE "Greater")
    ELSE WCmp(s[3], t[3])

\* impl Ord for Id
Id_cmp(a, b) == TupleCmp(split_id(a), split_id(b))

-----------------------------------------------------------------------------
(* socketcan_frame.rs: the composite ID word.                              *)

\* The mutation: the extended flag is not set.
id_to_canid_t_no_flag(i) == i.raw

id_to_canid_t(i) ==
    IF i.kind = "Standard" THEN i.raw ELSE Or(i.raw, _CAN_EFF_FLAG)

id_is_extended(i) == i.kind = "Extended"

\* The mutation: the boundary value 0x7FF is classified as extended.
id_from_raw_strict(n) ==
    IF WLt(n, _CAN_SFF_MASK)
    THEN StandardInto(StandardId_new(AsU16(n)))
    ELSE ExtendedInto(ExtendedId_new(n))

id_from_raw(n) ==
    IF WLe(n, _CAN_SFF_MASK)
    THEN StandardInto(StandardId_new(AsU16(n)))
    ELSE ExtendedInto(ExtendedId_new(n))

-----------------------------------------------------------------------------
(* Inputs.                                                                 *)

\* The boundaries of the identifier code: 0, 0x7FF, 2^18, 0x1FFFFFFF.
Anchors == {0, 2047, 2048, 262143, 262144, 536870911}

LowSamples ==
    {n \in UNION {(a - Radius)..(a + Radius) : a \in Anchors} :
        n >= 0 /\ n <= 536870911}

FlagSets == SUBSET {29, 30, 31}

\* u32 arguments: every combination of the three top bits over the sampled low bits.
RawSamples == {BitsOf(n) \cup f : n \in LowSamples, f \in FlagSets}

\* u16 arguments.
U16Samples == {BitsOf(n) : n \in {m \in LowSamples : m <= 65535}}

\* u32 arguments of ExtendedId::new.
ExtSamples ==
    {BitsOf(n) : n \in LowSamples} \cup {f : f \in FlagSets}

\* Valid identifiers.
IdSamples ==
    {Standard([std |-> BitsOf(n)]) : n \in {m \in LowSamples : m <= 2047}}
    \cup {Extended([ext |-> BitsOf(n)]) : n \in LowSamples}

-----------------------------------------------------------------------------
(* The identifier API, one action per call.                                *)

NoOrdering == "NoOrdering"

IdInit ==
    /\ raw = None
    /\ id = None
    /\ canid = None
    /\ other = None
    /\ ord = NoOrdering

FrameInit ==
    /\ frame = None
    /\ call = [op |-> "none"]
    /\ ret = None
    /\ stack = <<>>

Init == IdInit /\ FrameInit

\* let id: Option<Id> = StandardId::new(n).map(Id::from)
CallStandardIdNew ==
    \E n \in U16Samples :
        /\ id' = StandardInto(StandardId_new(n))
        /\ raw' = None /\ canid' = None /\ other' = None /\ ord' = NoOrdering
        /\ UNCHANGED frameVars

\* let id: Option<Id> = ExtendedId::new(n).map(Id::from)
CallExtendedIdNew ==
    \E n \in ExtSamples :
        /\ id' = ExtendedInto(ExtendedId_new(n))
        /\ raw' = None /\ canid' = None /\ other' = None /\ ord' = NoOrdering
        /\ UNCHANGED frameVars

\* let id = id_from_raw(n)
CallIdFromRaw ==
    \E n \in RawSamples :
        /\ raw' = Some(n)
        /\ id' = id_from_raw(n)
        /\ canid' = None /\ other' = None /\ ord' = NoOrdering
        /\ UNCHANGED frameVars

\* let canid = id_to_canid_t(id.unwrap())
CallIdToCanidT ==
    /\ id.tag = "Some"
    /\ canid' = Some(id_to_canid_t(id.val))
    /\ other' = None /\ ord' = NoOrdering
    /\ UNCHANGED <<raw, id>>
    /\ UNCHANGED frameVars

\* let ord = id.unwrap().cmp(&b)
CallIdCmp ==
    \E b \in IdSamples :
        /\ id.tag = "Some"
        /\ other' = Some(b)
        /\ ord' = Id_cmp(id.val, b)
        /\ UNCHANGED <<raw, id, canid>>
        /\ UNCHANGED frameVars

IdNext ==
    \/ CallStandardIdNew
    \/ CallExtendedIdNew
    \/ CallIdFromRaw
    \/ CallIdToCanidT
    \/ CallIdCmp

SpecId == Init /\ [][IdNext]_vars

-----------------------------------------------------------------------------
(* socketcan_frame.rs: can_frame and CanErrorFrame.  A byte is a number in *)
(* 0..255; the payload array data[0..8] is the sequence data[1..8].        *)

\* can_frame_default(): the entire structure zeroed.
can_frame_default ==
    [can_id |-> {}, can_dlc |-> 0, data |-> [i \in 1..8 |-> 0]]

\* The mutation: the last byte of the slice is not copied.
copy_from_slice_short(dst, n, src) ==
    [i \in 1..8 |-> IF i < n THEN src[i] ELSE dst[i]]

\* frame.data[..n].copy_from_slice(data)
copy_from_slice(dst, n, src) ==
    [i \in 1..8 |-> IF i <= n THEN src[i] ELSE dst[i]]

\* The mutation: the requested ID word is not masked before ERR is set.
new_error_keep_flags(can_id, data) ==
    LET n == Len(data) IN
    IF n <= _CAN_MAX_DLEN
    THEN LET frame0 == can_frame_default
         IN  Ok([can_id  |-> Or(can_id, _CAN_ERR_FLAG),
                 can_dlc |-> _CAN_MAX_DLEN,
                 data    |-> copy_from_slice(frame0.data, n, data)])
    ELSE Err("TooMuchData")

\* CanErrorFrame::new_error(can_id, data) -> Result<Self, ConstructionError>
new_error(can_id, data) ==
    LET n == Len(data) IN
    IF n <= _CAN_MAX_DLEN
    THEN LET frame0 == can_frame_default
         IN  Ok([can_id  |-> Or(And(can_id, _CAN_ERR_MASK), _CAN_ERR_FLAG),
                 can_dlc |-> _CAN_MAX_DLEN,
                 data    |-> copy_from_slice(frame0.data, n, data)])
    ELSE Err("TooMuchData")

\* CanErrorFrame::id_word
id_word(f) == f.can_id

\* CanErrorFrame::error_bits
error_bits(f) == And(id_word(f), _CAN_ERR_MASK)

\* Result::ok
ok(r) == IF r.tag = "Ok" THEN Some(r.val) ELSE None

\* <CanErrorFrame as embedded::Frame>::new(id, data) -> Option<Self>
Frame_new(i, data) ==
    LET can_id == id_to_canid_t(i) IN ok(new_error(can_id, data))

\* <CanErrorFrame as embedded::Frame>::new_remote(_id, _dlc) -> Option<Self>
new_remote(i, d) == None

\* <CanErrorFrame as embedded::Frame>::is_remote_frame
is_remote_frame(f) == FALSE

\* <CanErrorFrame as embedded::Frame>::is_data_frame, overriding the default
is_data_frame(f) == FALSE

\* <CanErrorFrame as embedded::Frame>::dlc
dlc(f) == f.can_dlc

\* <CanErrorFrame as embedded::Frame>::data: the full 8 bytes
data(f) == f.data

\* The mutation: set_id writes the identifier into the ID word.
set_id_writes(f, i) == [f EXCEPT !.can_id = id_to_canid_t(i)]

\* CanErrorFrame::set_id(&mut self, _id): the frame afterwards
set_id(f, i) == f

\* CanErrorFrame::set_data(&mut self, _data) -> Result<(), ConstructionError>
set_data(f, d) == Err("WrongFrameType")

\* The mutation: the RTR flag is tested instead of the ERR flag.
try_from_rtr(cf) ==
    IF And(cf.can_id, _CAN_RTR_FLAG) # {} THEN Ok(cf) ELSE Err("WrongFrameType")

\* impl TryFrom<can_frame> for CanErrorFrame
try_from(cf) ==
    IF And(cf.can_id, _CAN_ERR_FLAG) # {} THEN Ok(cf) ELSE Err("WrongFrameType")

\* impl From<CanError> for CanErrorFrame, up to the call of new_error: the
\* code of the match and the payload it fills.
CanError_encode(err) ==
    LET data0 == [i \in 1..8 |-> 0] IN
    CASE err.case = "TransmitTimeout"   -> <<BitsOf(1), data0>>
      [] err.case = "LostArbitration"   -> <<BitsOf(2), [data0 EXCEPT ![1] = err.bit]>>
      [] err.case = "ControllerProblem" -> <<BitsOf(4), [data0 EXCEPT ![2] = err.prob]>>
      [] err.case = "ProtocolViolation" ->
            <<BitsOf(8), [data0 EXCEPT ![3] = err.vtype, ![4] = err.location]>>
      [] err.case = "TransceiverError"  -> <<BitsOf(16), data0>>
      [] err.case = "NoAck"             -> <<BitsOf(32), data0>>
      [] err.case = "BusOff"            -> <<BitsOf(64), data0>>
      [] err.case = "BusError"          -> <<BitsOf(128), data0>>
      [] err.case = "Restarted"         -> <<BitsOf(256), data0>>
      [] err.case = "DecodingFailure"   -> <<{}, data0>>
      [] err.case = "Unknown"           -> <<err.e, data0>>

\* The mutation: payload bytes 2 and 3 are exchanged.
from_CanError_swapped(err) ==
    LET enc == CanError_encode(err)
    IN  new_error(enc[1], [enc[2] EXCEPT ![3] = enc[2][4], ![4] = enc[2][3]])

\* The mutation: BusError is given the code of BusOff.
from_CanError_duplicate(err) ==
    LET enc == CanError_encode(err)
    IN  new_error(IF err.case = "BusError" THEN BitsOf(64) ELSE enc[1], enc[2])

\* Self::new_error(id, &data), the Result that From<CanError> unwraps
from_CanError(err) ==
    LET enc == CanError_encode(err) IN new_error(enc[1], enc[2])

-----------------------------------------------------------------------------
(* Inputs of the error-frame API.                                          *)

ByteSamples == {0, 5, 255}

\* The slice of n bytes b, b+1, ... (wrapping at 256).
Ramp(b, n) == [i \in 1..n |-> (b + i - 1) % 256]

\* Payload slices of every length 0..MaxDataLen.
DataSamples == {Ramp(b, n) : b \in {5, 252}, n \in 0..MaxDataLen}

\* ID words: every combination of the three flag bits, and the extreme low bits.
CanIdSamples ==
    {BitsOf(2) \cup f : f \in FlagSets}
    \cup {{}, BitsOf(536870911), 0..31}

\* Raw classic frames, as a socket would hand them over.
RawFrameSamples ==
    {[can_id |-> c, can_dlc |-> d, data |-> p] :
        c \in CanIdSamples, d \in {0, 3, 8}, p \in {Ramp(0, 8), Ramp(5, 8)}}

\* Identifiers handed to the Frame constructors and to set_id.
FrameIdSamples == {i \in IdSamples : Val(i.raw) \in {1, 2047, 536870911}}

\* The cases of CanError, as the match of From<CanError> lists them; an enum
\* payload is given by the byte its `as u8` cast yields.
CanErrorSamples ==
    {[case |-> c] : c \in {"TransmitTimeout", "TransceiverError", "NoAck",
                            "BusOff", "BusError", "Restarted", "DecodingFailure"}}
    \cup {[case |-> "LostArbitration", bit |-> b] : b \in ByteSamples}
    \cup {[case |-> "ControllerProblem", prob |-> b] : b \in ByteSamples}
    \cup {[case |-> "ProtocolViolation", vtype |-> v, location |-> l] :
            v \in ByteSamples, l \in ByteSamples}
    \cup {[case |-> "Unknown", e |-> c] : c \in CanIdSamples}

-----------------------------------------------------------------------------
(* The error-frame API, one action per call.  A call that panics or        *)
(* overflows the stack ends the program.                                   *)

Value(x) == [tag |-> "Value", val |-> x]

Panic == [tag |-> "Panic"]

Abort == [tag |-> "Abort"]

\* The caller is between two calls.
Idle == stack = <<>> /\ ret.tag \notin {"Panic", "Abort"}

\* let r = CanErrorFrame::new_error(can_id, data)
CallNewError ==
    \E c \in CanIdSamples, d \in DataSamples :
        /\ Idle
        /\ call' = [op |-> "new_error", can_id |-> c, data |-> d]
        /\ ret' = new_error(c, d)
        /\ frame' = ok(ret')
        /\ UNCHANGED stack
        /\ UNCHANGED idVars

\* let r = <CanErrorFrame as Frame>::new(id, data)
CallFrameNew ==
    \E i \in FrameIdSamples, d \in DataSamples :
        /\ Idle
        /\ call' = [op |-> "new", id |-> i, data |-> d]
        /\ ret' = Frame_new(i, d)
        /\ frame' = ret'
        /\ UNCHANGED stack
        /\ UNCHANGED idVars

\* let r = <CanErrorFrame as Frame>::new_remote(id, dlc)
CallNewRemote ==
    \E i \in FrameIdSamples, d \in 0..MaxDataLen :
        /\ Idle
        /\ call' = [op |-> "new_remote", id |-> i, dlc |-> d]
        /\ ret' = new_remote(i, d)
        /\ frame' = ret'
        /\ UNCHANGED stack
        /\ UNCHANGED idVars

\* let r = CanErrorFrame::try_from(raw)
CallTryFrom ==
    \E cf \in RawFrameSamples :
        /\ Idle
        /\ call' = [op |-> "try_from", frame |-> cf]
        /\ ret' = try_from(cf)
        /\ frame' = ok(ret')
        /\ UNCHANGED stack
        /\ UNCHANGED idVars

\* let f = CanErrorFrame::from(err): new_error(id, &data).unwrap()
CallFromCanError ==
    \E err \in CanErrorSamples :
        /\ Idle
        /\ call' = [op |-> "from", err |-> err]
        /\ LET r == from_CanError(err)
           IN  IF r.tag = "Ok"
               THEN ret' = Value(r.val) /\ frame' = Some(r.val)
               ELSE ret' = Panic /\ frame' = None
        /\ UNCHANGED stack
        /\ UNCHANGED idVars

\* frame.set_id(id)
CallSetId ==
    \E i \in FrameIdSamples :
        /\ Idle
        /\ frame.tag = "Some"
        /\ call' = [op |-> "set_id"]
        /\ frame' = Some(set_id(frame.val, i))
        /\ ret' = Value("unit")
        /\ UNCHANGED stack
        /\ UNCHANGED idVars

\* let r = frame.set_data(data)
CallSetData ==
    \E d \in DataSamples :
        /\ Idle
        /\ frame.tag = "Some"
        /\ call' = [op |-> "set_data"]
        /\ ret' = set_data(frame.val, d)
        /\ UNCHANGED <<frame, stack>>
        /\ UNCHANGED idVars

\* let bits = frame.error_bits()
CallErrorBits ==
    /\ Idle
    /\ frame.tag = "Some"
    /\ call' = [op |-> "error_bits"]
    /\ ret' = Value(error_bits(frame.val))
    /\ UNCHANGED <<frame, stack>>
    /\ UNCHANGED idVars

\* let word = frame.id_word()
CallIdWord ==
    /\ Idle
    /\ frame.tag = "Some"
    /\ call' = [op |-> "id_word"]
    /\ ret' = Value(id_word(frame.val))
    /\ UNCHANGED <<frame, stack>>
    /\ UNCHANGED idVars

\* let n = frame.dlc()
CallDlc ==
    /\ Idle
    /\ frame.tag = "Some"
    /\ call' = [op |-> "dlc"]
    /\ ret' = Value(dlc(frame.val))
    /\ UNCHANGED <<frame, stack>>
    /\ UNCHANGED idVars

\* let bytes = frame.data()
CallData ==
    /\ Idle
    /\ frame.tag = "Some"
    /\ call' = [op |-> "data"]
    /\ ret' = Value(data(frame.val))
    /\ UNCHANGED <<frame, stack>>
    /\ UNCHANGED idVars

\* let b = frame.is_remote_frame()
CallIsRemoteFrame ==
    /\ Idle
    /\ frame.tag = "Some"
    /\ call' = [op |-> "is_remote_frame"]
    /\ ret' = Value(is_remote_frame(frame.val))
    /\ UNCHANGED <<frame, stack>>
    /\ UNCHANGED idVars

\* let b = frame.is_data_frame()
CallIsDataFrame ==
    /\ Idle
    /\ frame.tag = "Some"
    /\ call' = [op |-> "is_data_frame"]
    /\ ret' = Value(is_data_frame(frame.val))
    /\ UNCHANGED <<frame, stack>>
    /\ UNCHANGED idVars

\* frame.id(): todo!()
CallId ==
    /\ Idle
    /\ frame.tag = "Some"
    /\ call' = [op |-> "id"]
    /\ ret' = Panic
    /\ UNCHANGED <<frame, stack>>
    /\ UNCHANGED idVars

\* frame.is_extended() is entered.
CallIsExtended ==
    /\ Idle
    /\ frame.tag = "Some"
    /\ call' = [op |-> "is_extended"]
    /\ ret' = None
    /\ stack' = <<"is_extended">>
    /\ UNCHANGED frame
    /\ UNCHANGED idVars

\* frame.is_standard() is entered: the default method, !self.is_extended().
CallIsStandard ==
    /\ Idle
    /\ frame.tag = "Some"
    /\ call' = [op |-> "is_standard"]
    /\ ret' = None
    /\ stack' = <<"is_standard">>
    /\ UNCHANGED frame
    /\ UNCHANGED idVars

\* The body of is_standard and the body of is_extended both call
\* self.is_extended(), which on a CanErrorFrame is the trait method itself:
\* a new stack frame, or the same one when the build makes it a tail call.
StepIsExtended ==
    /\ stack # <<>>
    /\ ret.tag = "None"
    /\ \/ /\ Len(stack) < MaxStack
          /\ stack' = Append(stack, "is_extended")
       \/ /\ stack[Len(stack)] = "is_extended"
          /\ stack' = stack
    /\ UNCHANGED <<frame, call, ret>>
    /\ UNCHANGED idVars

\* No stack is left for the next call: the process is aborted.
StackOverflow ==
    /\ stack # <<>>
    /\ ret.tag = "None"
    /\ Len(stack) = MaxStack
    /\ ret' = Abort
    /\ UNCHANGED <<frame, call, stack>>
    /\ UNCHANGED idVars

FrameNext ==
    \/ CallNewError
    \/ CallFrameNew
    \/ CallNewRemote
    \/ CallTryFrom
    \/ CallFromCanError
    \/ CallSetId
    \/ CallSetData
    \/ CallErrorBits
    \/ CallIdWord
    \/ CallDlc
    \/ CallData
    \/ CallIsRemoteFrame
    \/ CallIsDataFrame
    \/ CallId
    \/ CallIsExtended
    \/ CallIsStandard
    \/ StepIsExtended
    \/ StackOverflow

Spec == Init /\ [][FrameNext]_vars

-----------------------------------------------------------------------------
(* Properties of the identifier model and the ID word codec.               *)

\* The arbitration key of an identifier, by arithmetic on its number.
Triple(i) ==
    IF i.kind = "Standard"
    THEN <<Val(i.raw), 0, 0>>
    ELSE <<Val(i.raw) \div 262144, 1, Val(i.raw) % 262144>>

LexOrder(s, t) ==
    IF s[1] # t[1] THEN (IF s[1] < t[1] THEN "Less" ELSE "Greater")
    ELSE IF s[2] # t[2] THEN (IF s[2] < t[2] THEN "Less" ELSE "Greater")
    ELSE IF s[3] # t[3] THEN (IF s[3] < t[3] THEN "Less" ELSE "Greater")
    ELSE "Equal"

\* C1: a.cmp(b) is the lexicographic comparison of (base, ide, low18), with
\* (s, 0, 0) for Standard(s) and (e >> 18, 1, e & 0x3FFFF) for Extended(e): at
\* equal base a standard identifier orders strictly before an extended one, and
\* two extended identifiers of the same base order by their low 18 bits.
C1_CmpIsArbitrationOrder ==
    ord # NoOrdering =>
        LET a == id.val
            b == other.val
            ta == Triple(a)
            tb == Triple(b)
        IN  /\ ord = LexOrder(ta, tb)
            /\ (ta[1] = tb[1] /\ a.kind = "Standard" /\ b.kind = "Extended")
                  => ord = "Less"
            /\ (ta[1] = tb[1] /\ a.kind = "Extended" /\ b.kind = "Extended")
                  => (ord = "Less" <=> ta[3] < tb[3])

\* A standard identifier was compared with an extended one of the same non-zero base.
C1_Witness ==
    /\ ord = "Less"
    /\ id.val.kind = "Standard"
    /\ other.val.kind = "Extended"
    /\ Val(id.val.raw) > 0
    /\ Val(id.val.raw) = Val(other.val.raw) \div 262144

\* C2: id_from_raw(raw) is Some(Standard) with as_raw() = raw when raw <= 0x7FF,
\* Some(Extended) with as_raw() = raw when 0x7FF < raw <= 0x1FFFFFFF, and None
\* exactly when raw > 0x1FFFFFFF.
C2_IdFromRawClassifies ==
    raw.tag = "Some" =>
        LET n == raw.val
            tooBig == (n \cap {29, 30, 31}) # {}
        IN  /\ (~tooBig /\ Val(n) <= 2047) =>
                  /\ id.tag = "Some"
                  /\ id.val.kind = "Standard"
                  /\ Val(id.val.raw) = Val(n)
            /\ (~tooBig /\ Val(n) > 2047) =>
                  /\ id.tag = "Some"
                  /\ id.val.kind = "Extended"
                  /\ Val(id.val.raw) = Val(n)
            /\ (id.tag = "None") <=> tooBig

\* id_from_raw was called on the boundary value 0x7FF and gave a standard identifier.
C2_Witness ==
    /\ raw.tag = "Some"
    /\ raw.val = BitsOf(2047)
    /\ id.tag = "Some"
    /\ id.val.kind = "Standard"

\* C3: for raw <= 0x1FFFFFFF, id_to_canid_t(id_from_raw(raw).unwrap()) masked
\* with the 11-bit mask (Standard) or the 29-bit mask (Extended) is raw; bit 31
\* (EFF) is set in it exactly when the identifier is Extended; bits 30 (RTR)
\* and 29 (ERR) are never set.
C3_CanidOfRaw ==
    (raw.tag = "Some" /\ canid.tag = "Some") =>
        LET w == canid.val
            mask == IF id.val.kind = "Standard" THEN 0..10 ELSE 0..28
        IN  /\ (w \cap mask) = raw.val
            /\ (31 \in w) <=> (id.val.kind = "Extended")
            /\ 30 \notin w
            /\ 29 \notin w

\* id_to_canid_t was applied to the extended identifier id_from_raw gave for 0x800.
C3_Witness ==
    /\ raw.tag = "Some"
    /\ raw.val = BitsOf(2048)
    /\ canid.tag = "Some"
    /\ id.val.kind = "Extended"
    /\ 31 \in canid.val

\* C4, as claimed: for every valid identifier, id_from_raw of its ID word with
\* the EFF bit cleared gives the identifier back.
C4_ExactInverse ==
    canid.tag = "Some" => id_from_raw(canid.val \ _CAN_EFF_FLAG) = id

\* C4, amended: that holds for every standard identifier and for every extended
\* identifier above 0x7FF; for Extended(e) with e <= 0x7FF the result is
\* Some(Standard(e)).
C4_InverseAboveStandardRange ==
    canid.tag = "Some" =>
        LET back == id_from_raw(canid.val \ _CAN_EFF_FLAG)
        IN  IF id.val.kind = "Extended" /\ Val(id.val.raw) <= 2047
            THEN /\ back.tag = "Some"
                 /\ back.val.kind = "Standard"
                 /\ back.val.raw = id.val.raw
            ELSE back = id

\* The ID word of an extended identifier just above the standard range was computed.
C4_Witness ==
    /\ canid.tag = "Some"
    /\ id.val.kind = "Extended"
    /\ Val(id.val.raw) = 2048
    /\ id_from_raw(canid.val \ _CAN_EFF_FLAG) = id

-----------------------------------------------------------------------------
(* Properties of the error-frame codec.                                    *)

\* C5: new_error(can_id, data) is Err(TooMuchData) exactly when data has more
\* than 8 bytes; otherwise, whatever the top three bits of can_id, it is Ok
\* with a frame of dlc 8 whose ERR bit is set and whose EFF and RTR bits are clear.
C5_NewErrorResult ==
    call.op = "new_error" =>
        LET n == Len(call.data) IN
        /\ (ret = Err("TooMuchData")) <=> (n > 8)
        /\ (n <= 8) =>
              /\ ret.tag = "Ok"
              /\ dlc(ret.val) = 8
              /\ 29 \in id_word(ret.val)
              /\ 31 \notin id_word(ret.val)
              /\ 30 \notin id_word(ret.val)

\* new_error was given an ID word with all 32 bits set and a full payload.
C5_Witness ==
    /\ call.op = "new_error"
    /\ call.can_id = 0..31
    /\ Len(call.data) = 8
    /\ ret.tag = "Ok"

\* C6: for data of n <= 8 bytes the frame new_error returns has error_bits()
\* equal to can_id & 0x1FFFFFFF and a payload of 8 bytes, the first n those of
\* data and the other 8 - n zero.
C6_NewErrorContents ==
    (call.op = "new_error" /\ Len(call.data) <= 8) =>
        LET n == Len(call.data) IN
        /\ ret.tag = "Ok"
        /\ error_bits(ret.val) = call.can_id \ {29, 30, 31}
        /\ Len(data(ret.val)) = 8
        /\ \A i \in 1..8 :
              data(ret.val)[i] = IF i <= n THEN call.data[i] ELSE 0

\* new_error(0x0002, [5]) gave error bits 0x0002 and the payload [5,0,0,0,0,0,0,0].
C6_Witness ==
    /\ call.op = "new_error"
    /\ call.can_id = BitsOf(2)
    /\ call.data = <<5>>
    /\ ret.tag = "Ok"
    /\ Val(error_bits(ret.val)) = 2
    /\ data(ret.val) = <<5, 0, 0, 0, 0, 0, 0, 0>>

\* C7: try_from(raw) is Ok if and only if bit 29 (ERR) of raw.can_id is set,
\* and Err(WrongFrameType) otherwise; on Ok the frame's ID word, dlc and
\* payload are those of raw.
C7_TryFromResult ==
    call.op = "try_from" =>
        /\ (ret.tag = "Ok") <=> (29 \in call.frame.can_id)
        /\ (ret.tag # "Ok") => ret = Err("WrongFrameType")
        /\ (ret.tag = "Ok") =>
              /\ id_word(ret.val) = call.frame.can_id
              /\ dlc(ret.val) = call.frame.can_dlc
              /\ data(ret.val) = call.frame.data

\* try_from accepted a raw frame with ERR set and a length code of 3.
C7_Witness ==
    /\ call.op = "try_from"
    /\ ret.tag = "Ok"
    /\ call.frame.can_id = BitsOf(536870912 + 2)
    /\ dlc(ret.val) = 3

\* C8, as claimed: every error frame the caller can hold, however it was
\* constructed and whatever set_id and set_data calls followed, has ERR set
\* and EFF and RTR clear in its ID word.
C8_FlagsForced ==
    frame.tag = "Some" =>
        /\ 29 \in id_word(frame.val)
        /\ 31 \notin id_word(frame.val)
        /\ 30 \notin id_word(frame.val)

\* C9, as claimed: on every frame is_data_frame() = !is_remote_frame(), and
\* is_standard() and is_extended() return, with is_standard() = !is_extended().
C9_FrameQueriesComplementary ==
    frame.tag = "Some" =>
        /\ is_data_frame(frame.val) = ~is_remote_frame(frame.val)
        /\ call.op \in {"is_standard", "is_extended"} => ret.tag # "Abort"

\* The code the table gives each case of CanError.
TableCode(c) ==
    CASE c = "TransmitTimeout"   -> 1
      [] c = "LostArbitration"   -> 2
      [] c = "ControllerProblem" -> 4
      [] c = "ProtocolViolation" -> 8
      [] c = "TransceiverError"  -> 16
      [] c = "NoAck"             -> 32
      [] c = "BusOff"            -> 64
      [] c = "BusError"          -> 128
      [] c = "Restarted"         -> 256
      [] c = "DecodingFailure"   -> 0

\* The payload byte at index k (from 0) the table gives the error.
TableByte(err, k) ==
    IF err.case = "LostArbitration" /\ k = 0 THEN err.bit
    ELSE IF err.case = "ControllerProblem" /\ k = 1 THEN err.prob
    ELSE IF err.case = "ProtocolViolation" /\ k = 2 THEN err.vtype
    ELSE IF err.case = "ProtocolViolation" /\ k = 3 THEN err.location
    ELSE 0

\* C10: CanErrorFrame::from(err) never panics and gives a frame of dlc 8; for
\* every case but Unknown its error_bits() is the code of the table, its
\* payload holds the bytes named for the case and zero everywhere else.
C10_CanErrorTable ==
    call.op = "from" =>
        /\ ret.tag = "Value"
        /\ dlc(ret.val) = 8
        /\ call.err.case # "Unknown" =>
              /\ Val(error_bits(ret.val)) = TableCode(call.err.case)
              /\ \A k \in 0..7 : data(ret.val)[k + 1] = TableByte(call.err, k)

\* A protocol violation with distinct type and location bytes was converted.
C10_Witness ==
    /\ call.op = "from"
    /\ call.err.case = "ProtocolViolation"
    /\ call.err.vtype = 5
    /\ call.err.location = 255
    /\ ret.tag = "Value"
    /\ data(ret.val) = <<0, 0, 5, 255, 0, 0, 0, 0>>

\* The error bits of the frame an error converts to.
CodeOf(err) == error_bits(from_CanError(err).val)

\* C11, as claimed: two errors of different cases, Unknown(e) included for
\* every e, convert to frames with different error_bits().
C11_DistinctCodes ==
    call.op = "from" =>
        \A e2 \in CanErrorSamples :
            e2.case # call.err.case => CodeOf(e2) # error_bits(ret.val)

\* C11, amended: two errors of different cases, neither of them Unknown,
\* convert to frames with different error_bits(); Unknown(e) converts to
\* error_bits() = e & 0x1FFFFFFF, whatever code that is.
C11_DistinctNamedCodes ==
    call.op = "from" =>
        IF call.err.case = "Unknown"
        THEN error_bits(ret.val) = call.err.e \ {29, 30, 31}
        ELSE \A e2 \in CanErrorSamples :
                (e2.case # "Unknown" /\ e2.case # call.err.case)
                    => CodeOf(e2) # error_bits(ret.val)

\* A decoding failure, the case with code 0, was converted.
C11_Witness ==
    /\ call.op = "from"
    /\ call.err.case = "DecodingFailure"
    /\ ret.tag = "Value"
    /\ error_bits(ret.val) = {}

\* C12: an error frame is immutable: every set_data call returns
\* Err(WrongFrameType), and a set_id or set_data call leaves the ID word, the
\* dlc and the 8 payload bytes as they were, so that after any sequence of
\* such calls they are those of the construction.
C12_ErrorFrameImmutable ==
    [][call'.op \in {"set_id", "set_data"} =>
          /\ frame.tag = "Some"
          /\ frame'.tag = "Some"
          /\ id_word(frame'.val) = id_word(frame.val)
          /\ dlc(frame'.val) = dlc(frame.val)
          /\ data(frame'.val) = data(frame.val)
          /\ call'.op = "set_data" => ret' = Err("WrongFrameType")]_vars

\* set_data was refused on a frame with a non-zero payload, and the frame is held still.
C12_Witness ==
    /\ call.op = "set_data"
    /\ ret = Err("WrongFrameType")
    /\ frame.tag = "Some"
    /\ data(frame.val)[1] = 5

\* C13, as claimed: is_extended() on an error frame terminates and returns
\* false, and so is_standard() terminates and returns true: the call never
\* ends with the process aborted, and the value it returns is that one.
C13_IsExtendedReturnsFalse ==
    /\ call.op = "is_extended" =>
          /\ ret.tag # "Abort"
          /\ ret.tag = "Value" => ret.val = FALSE
    /\ call.op = "is_standard" =>
          /\ ret.tag # "Abort"
          /\ ret.tag = "Value" => ret.val = TRUE

=============================================================================
